---- MODULE Spec2Model ----
(***************************************************************************)
(* Model of the CyberX ingestion pipeline: the URL tracker (ledger), the   *)
(* live feed (buffer), the daily News_today_<date>.json archive written by *)
(* the scraper, the 24x7 monitor's day rollover and the backup manager.    *)
(***************************************************************************)
EXTENDS Integers, Sequences, FiniteSets, TLC

(* ------------------------------ bounds --------------------------------- *)
MaxDay == 2          \* calendar days 1..MaxDay
MaxTick == 2         \* number of archive-file writes (logical mtime clock)
MaxCycles == 2        \* scraper cycles started
MaxPerSite == 1      \* articles scraped per site and cycle in the model
MaxOps == 3          \* tracker API calls in TrackerSpec
NSites == 2          \* lines of config/url_fetch.txt
MaxBackupDay == 3    \* calendar days 1..MaxBackupDay in BackupSpec
KeepDays == 1        \* configured retention horizon in days (KEEP_DAYS)
MaxNow == 5          \* clock ticks of the API process, 1..MaxNow
MaxContent == 3      \* versions of summarized_news_hf.json, 1 = the empty list
DataTTL == 3         \* TTL of cyberx:news_data / cyberx:news_mtime (3600 s), in ticks
PageTTL == 2         \* TTL of cyberx:paginated_news:* (300 s), in ticks
EventsPerWrite == 2  \* modify events the observer delivers for one rewrite
MaxLedgerLines == 2  \* lines a ledger file gets from outside the tracker
MaxRotTick == 3      \* writes of data files in RotateSpec (logical mtime clock)
MaxAge == 3          \* hours since the daily file was written, 0..MaxAge, in GateSpec
QueueCap == 3        \* entries /api/notify keeps in notifications_queue (50)
MaxQueueLen == 5     \* longest notifications_queue of NotifySpec

Sites == 1..NSites
Days == 1..MaxDay

(* URLs are character sequences so that the ledger line format and its     *)
(* parser are modelled by what they do.                                    *)
Urls == { <<"a">>, <<"b">>, <<"a", "|", "b">> }
(* the URLs the sites serve in the model *)
FeedUrls == { <<"a">>, <<"a", "|", "b">> }
Stages == {"scraped", "summarized"}

(* ------------------------------ state ---------------------------------- *)
VARIABLES
  today,        \* calendar date of the wall clock (datetime.now())
  tick,         \* logical modification-time clock of the file system
  news,         \* data/News_today_*.json : file name -> document
  backup,       \* data/backup/News_today_*.json : file name -> document
  live,         \* data/cybersecurity_news_live.json
  ledger,       \* url_scraped.txt / url_final_summarized.txt : stage -> lines
  pc,           \* position of the running scraper cycle
  idx,          \* index of the next site in run_enhanced_scraper's loop
  all_results,  \* run_enhanced_scraper.all_results
  final,        \* cleaned_results (after transfer and clean)
  mon,          \* NewsMonitor24x7 object: up, current_date, backup manager date
  launcher,     \* main_launch.py: current_date of its BackupManager, 0 = not running
  hist,         \* history of the current cycle (observation only)
  op,           \* last URL tracker API call and its result (observation only)
  api,          \* cybersecurity_fastapi.py: clock, summarized file, both cache tiers
  net           \* fetch loop of one cycle: site, attempt, clocks, retry delays

vars == <<today, tick, news, backup, live, ledger, pc, idx, all_results,
          final, mon, launcher, hist, op, api, net>>

(* ------------------------- sequence helpers ---------------------------- *)
Range(s) == { s[i] : i \in 1..Len(s) }

RECURSIVE SumLens(_, _)
SumLens(f, S) ==
  IF S = {} THEN 0
  ELSE LET k == CHOOSE x \in S : TRUE
       IN Len(f[k]) + SumLens(f, S \ {k})

RECURSIVE FlattenOver(_, _)
FlattenOver(f, ks) ==
  IF ks = <<>> THEN <<>> ELSE f[Head(ks)] \o FlattenOver(f, Tail(ks))

RECURSIVE SortedSeq(_)
SortedSeq(S) ==
  IF S = {} THEN <<>>
  ELSE LET m == CHOOSE x \in S : \A y \in S : x <= y
       IN <<m>> \o SortedSeq(S \ {m})

(* =========================== URL tracker =============================== *)
(* str.strip(): remove leading and trailing blanks *)
RECURSIVE LStrip(_)
LStrip(s) == IF s # <<>> /\ Head(s) = " " THEN LStrip(Tail(s)) ELSE s

RECURSIVE RStrip(_)
RStrip(s) ==
  IF s # <<>> /\ s[Len(s)] = " " THEN RStrip(SubSeq(s, 1, Len(s) - 1)) ELSE s

Strip(s) == RStrip(LStrip(s))

(* line.split('|')[0] *)
RECURSIVE FirstPart(_)
FirstPart(s) ==
  IF s = <<>> \/ Head(s) = "|" THEN <<>> ELSE <<Head(s)>> \o FirstPart(Tail(s))

(* entry = f"{url}|{current_date}|{domain}\n" (and |{status} for summarized) *)
FormatEntry(url, stage) ==
  IF stage = "scraped" THEN url \o <<"|", "T", "|", "D">>
  ELSE url \o <<"|", "T", "|", "D", "|", "S">>

(* header written by _initialize_files: comment lines and an empty line *)
HeaderLines == << <<"#", " ", "F">>, <<>> >>

(* _load_urls_from_file *)
RECURSIVE LoadUrlsFromFile(_)
LoadUrlsFromFile(lines) ==
  IF lines = <<>> THEN {}
  ELSE LET line == Strip(Head(lines))
           rest == LoadUrlsFromFile(Tail(lines))
       IN IF line # <<>> /\ Head(line) # "#"
          THEN {Strip(FirstPart(line))} \cup rest
          ELSE rest

(* a byte that is not valid UTF-8 *)
BadByte == "!"

HasBadByte(lines) ==
  \E i \in 1..Len(lines) : \E j \in 1..Len(lines[i]) : lines[i][j] = BadByte

(* _load_urls_from_file on the bytes of the file: open(..., encoding=      *)
(* 'utf-8') decodes a whole read buffer before the first line is yielded,  *)
(* the UnicodeDecodeError is caught outside the loop and the set built so  *)
(* far is returned (a file shorter than the read buffer: the empty set)    *)
LoadLedgerFile(lines) ==
  IF HasBadByte(lines) THEN {} ELSE LoadUrlsFromFile(lines)

(* is_url_scraped / is_url_summarized *)
IsUrlTracked(lines, url) == url \in LoadUrlsFromFile(lines)

(* add_scraped_url / add_summarized_url: the file after the call (the file  *)
(* is opened with 'a')                                                      *)
AddUrl_rewriting(lines, url, stage) ==
  IF IsUrlTracked(lines, url) THEN lines
  ELSE Append(HeaderLines, FormatEntry(url, stage))

AddUrl(lines, url, stage) ==
  IF IsUrlTracked(lines, url) THEN lines
  ELSE Append(lines, FormatEntry(url, stage))

(* add_*_url returns True on both paths (False only on an I/O exception) *)
AddUrlResult(lines, url) == TRUE

(* filter_new_articles / filter_unsummarized_articles *)
RECURSIVE FilterNewArticles_prepending(_, _)
FilterNewArticles_prepending(lines, arts) ==
  IF arts = <<>> THEN <<>>
  ELSE LET a == Head(arts)
           rest == FilterNewArticles_prepending(lines, Tail(arts))
       IN IF a.url # <<>> /\ a.url \notin LoadUrlsFromFile(lines)
          THEN rest \o <<a>> ELSE rest

RECURSIVE FilterNewArticles(_, _)
FilterNewArticles(lines, arts) ==
  IF arts = <<>> THEN <<>>
  ELSE LET a == Head(arts)
           rest == FilterNewArticles(lines, Tail(arts))
       IN IF a.url # <<>> /\ a.url \notin LoadUrlsFromFile(lines)
          THEN <<a>> \o rest ELSE rest

(* bulk_add_scraped_urls / bulk_add_summarized_urls: the file after the call *)
RECURSIVE BulkAddUrls(_, _, _)
BulkAddUrls(lines, arts, stage) ==
  IF arts = <<>> THEN lines
  ELSE IF Head(arts).url # <<>>
       THEN BulkAddUrls(AddUrl(lines, Head(arts).url, stage), Tail(arts), stage)
       ELSE BulkAddUrls(lines, Tail(arts), stage)

(* bulk_add_*: the returned added_count *)
RECURSIVE BulkAddCount(_, _)
BulkAddCount(lines, arts) ==
  IF arts = <<>> THEN 0
  ELSE (IF Head(arts).url # <<>> /\ AddUrlResult(lines, Head(arts).url)
        THEN 1 ELSE 0) + BulkAddCount(lines, Tail(arts))


(* ======================= documents and files =========================== *)
(* a missing live file *)
NoFile == [articles |-> <<>>, fmt |-> "nofile", mday |-> 0]
EmptyMap == [x \in {} |-> <<>>]

Put(f, k, v) == [x \in (DOMAIN f) \cup {k} |-> IF x = k THEN v ELSE f[x]]
Remove(f, k) == [x \in (DOMAIN f) \ {k} |-> f[x]]

(* an article dict: url, domain (netloc of the site it was found on) and    *)
(* ok = (status == 'success' and word_count > 0 and content non-empty)      *)
Article(u, d, b) == [url |-> u, domain |-> d, ok |-> b]

UrlsOfSeq(arts) == { arts[i].url : i \in 1..Len(arts) }
UrlsOfResults(res) == UNION { UrlsOfSeq(res[k]) : k \in DOMAIN res }
AllArticles(res) == FlattenOver(res, SortedSeq(DOMAIN res))

(* output_file = News_today_<%Y%m%d>.json: the name carries the date only *)
DailyFileName_withTime(d, t) == [date |-> d, stamp |-> t]
DailyFileName(d, t) == [date |-> d, stamp |-> 0]

ArchiveUrls(files) == UNION { UrlsOfResults(files[n].results) : n \in DOMAIN files }
FilesOfDate(files, d) == { n \in DOMAIN files : n.date = d }

(* the live feed: 'articles' list, whether the document has a 'results' key *)
(* (fmt = "full") and the calendar date of its modification time            *)
LiveArticles(lv) == IF lv = NoFile THEN <<>> ELSE lv.articles

(* clear_live_feed: empty structure with monitoring_info, results, articles *)
ClearLiveFeed(day) == [articles |-> <<>>, fmt |-> "full", mday |-> day]

(* create_initial_live_file: monitoring_info and results, no articles *)
CreateInitialLiveFile(day) == [articles |-> <<>>, fmt |-> "full", mday |-> day]

(* save_article_instantly without the existing_urls test *)
SaveArticleInstantly_noUrlCheck(lv, a, day) ==
  LET base == IF lv = NoFile THEN [articles |-> <<>>, fmt |-> "bare", mday |-> day]
              ELSE lv
  IN IF a.ok
     THEN [base EXCEPT !.articles = Append(@, a), !.mday = day]
     ELSE lv

(* save_article_instantly: append unless the URL is already in the feed *)
SaveArticleInstantly(lv, a, day) ==
  LET base == IF lv = NoFile THEN [articles |-> <<>>, fmt |-> "bare", mday |-> day]
              ELSE lv
  IN IF a.url \notin UrlsOfSeq(base.articles) /\ a.ok
     THEN [base EXCEPT !.articles = Append(@, a), !.mday = day]
     ELSE lv

RECURSIVE SaveAllInstantly(_, _, _)
SaveAllInstantly(lv, arts, day) ==
  IF arts = <<>> THEN lv
  ELSE SaveAllInstantly(
         IF Head(arts).ok THEN SaveArticleInstantly(lv, Head(arts), day) ELSE lv,
         Tail(arts), day)

(* transfer_live_articles_to_final, without the trailing clear_live_feed:  *)
(* group the feed by domain, extend (or create) the site entry, add the    *)
(* transferred count to scraping_info.total_articles                       *)
TransferLive(fr, liveArts) ==
  LET doms == { liveArts[i].domain : i \in 1..Len(liveArts) }
      ofDom(d) == SelectSeq(liveArts, LAMBDA a : a.domain = d)
  IN [results |-> [k \in (DOMAIN fr.results) \cup doms |->
                     IF k \in doms
                     THEN (IF k \in DOMAIN fr.results THEN fr.results[k] ELSE <<>>)
                          \o ofDom(k)
                     ELSE fr.results[k]],
      total |-> fr.total + Len(liveArts)]

(* results[site]['articles_found'] as it is written to the daily file: set *)
(* by scrape_website from the links found and by the transfer from the     *)
(* extended list; clean_final_results leaves it alone                       *)
ArticlesFound(fr, k) == Len(fr.results[k])

(* clean_final_results: keep the successful articles with content *)
CleanFinalResults(fr) ==
  [results |-> [k \in DOMAIN fr.results |->
                  SelectSeq(fr.results[k], LAMBDA a : a.ok)],
   total |-> fr.total]

(* the results whose URLs run_enhanced_scraper hands to the tracker *)
ResultsToTrack_uncleaned(fr) == fr
ResultsToTrack(fr) == CleanFinalResults(fr)

(* save_scraped_urls_instantly followed by the second bulk_add_scraped_urls *)
TrackScrapedUrls(lines, fr) ==
  LET arts == AllArticles(ResultsToTrack(fr).results)
      succ == SelectSeq(arts, LAMBDA a : a.ok /\ a.url # <<>>)
  IN BulkAddUrls(BulkAddUrls(lines, succ, "scraped"), arts, "scraped")

(* final_results as structured at the top of the finally block *)
FinalResults(res) ==
  [results |-> res,
   total |-> Len(SelectSeq(AllArticles(res), LAMBDA a : a.ok))]

(* NewsMonitor24x7.append_to_daily_archive on an archive document *)
AppendToDailyArchive(doc, new_articles) ==
  LET res == [k \in (DOMAIN doc.results) \cup (DOMAIN new_articles) |->
                (IF k \in DOMAIN doc.results THEN doc.results[k] ELSE <<>>)
                \o (IF k \in DOMAIN new_articles THEN new_articles[k] ELSE <<>>)]
  IN [results |-> res, total |-> SumLens(res, DOMAIN res)]

(* initial_archive with a total that is not recomputed *)
InitialArchive_staleTotal(t) == [results |-> EmptyMap, total |-> 1, mtime |-> t]

(* initial_archive of get_or_create_daily_archive *)
InitialArchive(t) == [results |-> EmptyMap, total |-> 0, mtime |-> t]

(* load_existing_articles: known_articles after the call. json.load of a   *)
(* damaged live file or daily archive raises, the except clause resets the *)
(* set and the URL tracker is not read any more                             *)
KnownArticles(nw, lines, day, liveBad, archBad) ==
  IF liveBad \/ archBad THEN {}
  ELSE ArchiveUrls([n \in FilesOfDate(nw, day) |-> nw[n]])
         \cup LoadLedgerFile(lines)

(* ========================== backup manager ============================= *)
Outcomes == {"ok", "copy_fail", "unlink_fail"}

(* should_backup_file for a News_today_<date>.json name *)
ShouldBackupFile(name, bm_date) == name.date # bm_date

(* backup_file_with_date: skip when the backup is at least as recent *)
BackupUpToDate(src, bk, name) ==
  name \in DOMAIN bk /\ src.mtime <= bk[name].mtime

(* backup_news_files over the files in names, one outcome per file *)
RECURSIVE BackupNewsFiles_keepOriginal(_, _, _, _, _)
BackupNewsFiles_keepOriginal(nw, bk, names, bm_date, out) ==
  IF names = {} THEN [news |-> nw, backup |-> bk]
  ELSE LET n == CHOOSE x \in names : TRUE
           rest == names \ {n}
       IN IF ~ShouldBackupFile(n, bm_date) \/ out[n] = "copy_fail"
             \/ BackupUpToDate(nw[n], bk, n)
          THEN BackupNewsFiles_keepOriginal(nw, bk, rest, bm_date, out)
          ELSE BackupNewsFiles_keepOriginal(nw, Put(bk, n, nw[n]), rest, bm_date, out)

RECURSIVE BackupNewsFiles_unlinkAlways(_, _, _, _, _)
BackupNewsFiles_unlinkAlways(nw, bk, names, bm_date, out) ==
  IF names = {} THEN [news |-> nw, backup |-> bk]
  ELSE LET n == CHOOSE x \in names : TRUE
           rest == names \ {n}
       IN IF ~ShouldBackupFile(n, bm_date)
          THEN BackupNewsFiles_unlinkAlways(nw, bk, rest, bm_date, out)
          ELSE IF out[n] = "copy_fail"
          THEN BackupNewsFiles_unlinkAlways(Remove(nw, n), bk, rest, bm_date, out)
          ELSE BackupNewsFiles_unlinkAlways(Remove(nw, n), Put(bk, n, nw[n]), rest,
                                            bm_date, out)

RECURSIVE BackupNewsFiles(_, _, _, _, _)
BackupNewsFiles(nw, bk, names, bm_date, out) ==
  IF names = {} THEN [news |-> nw, backup |-> bk]
  ELSE LET n == CHOOSE x \in names : TRUE
           rest == names \ {n}
       IN IF ~ShouldBackupFile(n, bm_date)
          THEN BackupNewsFiles(nw, bk, rest, bm_date, out)
          ELSE IF BackupUpToDate(nw[n], bk, n)
          THEN BackupNewsFiles(IF out[n] = "unlink_fail" THEN nw ELSE Remove(nw, n),
                               bk, rest, bm_date, out)
          ELSE IF out[n] = "copy_fail"
          THEN BackupNewsFiles(nw, bk, rest, bm_date, out)
          ELSE BackupNewsFiles(IF out[n] = "unlink_fail" THEN nw ELSE Remove(nw, n),
                               Put(bk, n, nw[n]), rest, bm_date, out)

(* the stats of backup_news_files: 'errors' counts the failed copies and the *)
(* failed unlinks                                                           *)
BackupErrors_copyOnly(nw, bk, bm_date, out) ==
  Cardinality({ n \in DOMAIN nw :
                  /\ ShouldBackupFile(n, bm_date)
                  /\ out[n] = "copy_fail" /\ ~BackupUpToDate(nw[n], bk, n) })

(* the stats of backup_news_files: 'errors' counts the failed copies and the *)
(* failed unlinks, 'backed_up' the files copied (or found up to date) and   *)
(* unlinked; a copy is not attempted when the backup is up to date          *)
BackupErrors(nw, bk, bm_date, out) ==
  Cardinality({ n \in DOMAIN nw :
                  /\ ShouldBackupFile(n, bm_date)
                  /\ \/ out[n] = "unlink_fail"
                     \/ (out[n] = "copy_fail" /\ ~BackupUpToDate(nw[n], bk, n)) })

BackedUp(nw, bk, bm_date, out) ==
  Cardinality({ n \in DOMAIN nw :
                  /\ ShouldBackupFile(n, bm_date)
                  /\ \/ out[n] = "ok"
                     \/ (out[n] = "copy_fail" /\ BackupUpToDate(nw[n], bk, n)) })

(* cleanup_live_file: a live file not modified "today" is removed *)
CleanupLiveFile(lv, bm_date, rmOk) ==
  IF lv # NoFile /\ lv.mday # bm_date /\ rmOk THEN NoFile ELSE lv


(* ============================ API cache layer ========================== *)
(* news_data_cache["data"] is None; also what GET gives for a missing key  *)
NoData == 0
(* json content [] of the summarized file *)
EmptyList == 1
Contents == EmptyList..MaxContent

(* a Redis key that is not set *)
NoKey == [val |-> NoData, exp |-> 0]
(* redis_client.setex(key, ttl, value) at time t *)
SetEx(v, ttl, t) == [val |-> v, exp |-> t + ttl]
(* redis_client.get(key) at time t: an expired key is gone *)
RedisGet(k, t) == IF k.exp > t THEN k.val ELSE NoData

NoLocal == [data |-> NoData, last_modified |-> 0]
NoRead == [seq |-> 0, name |-> "none", tier |-> "none", ret |-> NoData, body |-> NoData]

(* the module before it is imported: no file, nothing cached *)
ApiDown ==
  [started |-> FALSE, avail |-> FALSE, up |-> TRUE, now |-> 1,
   file |-> [exists |-> FALSE, data |-> EmptyList, mtime |-> 0], ev |-> 0,
   local |-> NoLocal, rdata |-> NoKey, rmtime |-> NoKey, page |-> NoKey,
   last |-> NoRead, queue |-> <<>>]

(* get_fresh_news_data with the recorded modification time ignored *)
GetFreshNewsData_noMtimeCheck(a) ==
  LET same == [local |-> a.local, rdata |-> a.rdata, rmtime |-> a.rmtime]
  IN IF ~a.file.exists
     THEN same @@ [ret |-> EmptyList, tier |-> "none"]
     ELSE IF a.local.data # NoData
     THEN same @@ [ret |-> a.local.data, tier |-> "local"]
     ELSE [ret |-> a.file.data, tier |-> "disk",
           local |-> [data |-> a.file.data, last_modified |-> a.file.mtime],
           rdata |-> a.rdata, rmtime |-> a.rmtime]

(* get_fresh_news_data: Redis entry, then local entry, then the file; a     *)
(* Redis error is logged and the read goes on                               *)
GetFreshNewsData(a) ==
  LET cur == a.file.mtime
      same == [local |-> a.local, rdata |-> a.rdata, rmtime |-> a.rmtime]
      cached_mtime == RedisGet(a.rmtime, a.now)
      cached_data == RedisGet(a.rdata, a.now)
      fresh == a.file.data
  IN IF ~a.file.exists
     THEN same @@ [ret |-> EmptyList, tier |-> "none"]
     ELSE IF /\ a.avail /\ a.up
             /\ cached_mtime # NoData /\ cached_mtime >= cur
             /\ cached_data # NoData
     THEN same @@ [ret |-> cached_data, tier |-> "redis"]
     ELSE IF a.local.data # NoData /\ a.local.last_modified >= cur
     THEN same @@ [ret |-> a.local.data, tier |-> "local"]
     ELSE [ret |-> fresh, tier |-> "disk",
           local |-> [data |-> fresh, last_modified |-> cur],
           rdata |-> IF a.avail /\ a.up /\ fresh # EmptyList
                     THEN SetEx(fresh, DataTTL, a.now) ELSE a.rdata,
           rmtime |-> IF a.avail /\ a.up /\ fresh # EmptyList
                      THEN SetEx(cur, DataTTL, a.now) ELSE a.rmtime]

(* invalidate_distributed_cache: local entry reset, both Redis keys deleted *)
InvalidateDistributedCache(a) ==
  [local |-> NoLocal,
   rdata |-> IF a.avail /\ a.up THEN NoKey ELSE a.rdata,
   rmtime |-> IF a.avail /\ a.up THEN NoKey ELSE a.rmtime]

(* get_all_news (page 1, no source filter): the paginated response cached   *)
(* in Redis is returned as it is; otherwise the response is built from      *)
(* get_fresh_news_data and cached unless it is empty                        *)
GetAllNews(a) ==
  LET cached_response == RedisGet(a.page, a.now)
      g == GetFreshNewsData(a)
  IN IF a.avail /\ a.up /\ cached_response # NoData
     THEN [ret |-> cached_response, tier |-> "page", local |-> a.local,
           rdata |-> a.rdata, rmtime |-> a.rmtime, page |-> a.page]
     ELSE g @@ [page |-> IF a.avail /\ a.up /\ g.ret # EmptyList
                         THEN SetEx(g.ret, PageTTL, a.now) ELSE a.page]

(* response_cache_middleware around a GET of /api/... answered with 200:    *)
(* the name Response is not defined in the module, so a cached response is  *)
(* never returned; after call_next the body iterator is consumed before the *)
(* setex and the rebuild, which raises, and the response goes out without   *)
(* its body                                                                 *)
ResponseCacheMiddleware(a, ret) == IF a.avail THEN NoData ELSE ret


(* the fetch loop is not running *)
(* ============================ fetch loop =============================== *)
(* durations are counted in units of 5 seconds                              *)

(* site_configs[...]['retries'] of the domain of line s of url_fetch.txt    *)
Retries(s) == IF s = 1 THEN 1 ELSE 2
(* site_configs[...]['timeout'] / 1000 + 30: timeout of one site attempt    *)
AttemptTimeout(s) == IF s = 1 THEN 12 ELSE 24
(* site_configs[...]['timeout'] / 1000: timeout of one article attempt      *)
ArticleTimeout(s) == IF s = 1 THEN 6 ELSE 18
(* timeout=180.0, the "3-minute hard timeout per site"                      *)
HardTimeout == 36
(* random.uniform(5, 15): 5, 10 or 15 seconds                               *)
DelayFactors == {1, 2, 3}
(* random.uniform(3.0, 8.0) between two sites, rounded up                   *)
SiteDelays == {1, 2}
(* min(len(articles), 8) articles, each after at most 3 seconds of delay,   *)
(* each with retries + 1 attempts and at most 5 seconds before a retry      *)
ArticlePhaseCap(s) == 8 * (1 + (Retries(s) + 1) * ArticleTimeout(s) + Retries(s))

SetMax(S) == CHOOSE x \in S : \A y \in S : y <= x
SumTo(n) == (n * (n + 1)) \div 2

(* the longest one site can keep the loop: up to the hard timeout, and, the *)
(* cancellation once swallowed, the remaining attempts and the articles     *)
SiteCap(s) ==
  HardTimeout + Retries(s) * AttemptTimeout(s)
  + SetMax(DelayFactors) * SumTo(Retries(s)) + ArticlePhaseCap(s)

RECURSIVE SumSiteCaps(_)
SumSiteCaps(n) == IF n = 0 THEN 0 ELSE SiteCap(n) + SumSiteCaps(n - 1)

CycleCap == SumSiteCaps(NSites) + (NSites - 1) * SetMax(SiteDelays)

(* crawler.arun without the enclosing asyncio.wait_for *)
AttemptDurations_noTimeout(s) == {1, CycleCap + 1}

(* how long one crawler.arun under asyncio.wait_for can take: it answers at *)
(* once or runs into the timeout                                            *)
AttemptDurations(s) == {1, AttemptTimeout(s)}

(* the article loop of scrape_website: no article, quick ones or the worst  *)
ArticleDurations(s) == {0, 1, ArticlePhaseCap(s)}

NetIdle ==
  [pc |-> "idle", i |-> 0, attempt |-> 0, site_t |-> 0, cycle_t |-> 0,
   cancelled |-> FALSE, delay |-> 0, ret |-> "none", entries |-> <<>>,
   merged |-> FALSE]

(* the except clauses of the site loop missing: a failed site ends the loop *)
AfterSite_abort(n, kind, sd) ==
  IF n.i < NSites /\ kind = "ok"
  THEN [n EXCEPT !.entries = Append(@, kind), !.cycle_t = @ + n.site_t + sd,
                 !.i = @ + 1, !.attempt = 0, !.site_t = 0, !.cancelled = FALSE,
                 !.delay = 0, !.ret = "none", !.pc = "attempt"]
  ELSE [n EXCEPT !.entries = Append(@, kind), !.cycle_t = @ + n.site_t,
                 !.site_t = 0, !.ret = "none", !.pc = "finally"]

(* run_enhanced_scraper after scrape_website: all_results[url] gets the     *)
(* site's data or an error entry, then the delay and the next site          *)
AfterSite(n, kind, sd) ==
  IF n.i < NSites
  THEN [n EXCEPT !.entries = Append(@, kind), !.cycle_t = @ + n.site_t + sd,
                 !.i = @ + 1, !.attempt = 0, !.site_t = 0, !.cancelled = FALSE,
                 !.delay = 0, !.ret = "none", !.pc = "attempt"]
  ELSE [n EXCEPT !.entries = Append(@, kind), !.cycle_t = @ + n.site_t,
                 !.site_t = 0, !.ret = "none", !.pc = "finally"]


(* ============================ initial state ============================ *)
NoOp == [name |-> "none", n |-> 0, stage |-> "scraped", url |-> <<>>,
         before |-> HeaderLines, ret |-> TRUE,
         added |-> [st \in Stages |-> {}],
         items |-> <<>>, out |-> <<>>, count |-> 0]

Hist0 == [saved |-> [d \in Days |-> 0], cycles |-> 0]

MonDown == [phase |-> "down", current_date |-> 0, bm_date |-> 0, errors |-> 0]

Init ==
  /\ today = 1
  /\ tick = 0
  /\ news = EmptyMap
  /\ backup = EmptyMap
  /\ live = NoFile
  /\ ledger = [st \in Stages |-> HeaderLines]
  /\ pc = "idle"
  /\ idx = 0
  /\ all_results = EmptyMap
  /\ final = FinalResults(EmptyMap)
  /\ mon = MonDown
  /\ launcher = 0
  /\ hist = Hist0
  /\ op = NoOp
  /\ api = ApiDown
  /\ net = NetIdle

(* ============================ scraper cycle ============================ *)
(* processed_urls of extract_article_links *)
ProcessedUrls == LoadUrlsFromFile(ledger["scraped"])
                   \cup LoadUrlsFromFile(ledger["summarized"])

(* extract_article_links tests "href in processed_urls" in the branches of  *)
(* bleepingcomputer.com and krebsonsecurity.com and in the broad search of  *)
(* the default branch only; the branches of the other sites do not.         *)
(* Site 1 of the model is of the first kind, the other sites of the second  *)
HasSmartFilter(s) == s = 1

(* what one site can yield: at most MaxPerSite articles with distinct URLs, *)
(* not processed yet where the site's branch filters, each scraped          *)
(* successfully or not                                                      *)
Candidates(s) ==
  LET new == IF HasSmartFilter(s) THEN FeedUrls \ ProcessedUrls ELSE FeedUrls
  IN { <<>> } \cup
     { <<Article(u, s, b)>> : u \in new, b \in BOOLEAN } \cup
     (IF MaxPerSite >= 2
      THEN { <<Article(u, s, b), Article(v, s, c)>> :
               u \in new, v \in new, b \in BOOLEAN, c \in BOOLEAN } \ 
           { <<Article(u, s, b), Article(u, s, c)>> :
               u \in new, b \in BOOLEAN, c \in BOOLEAN }
      ELSE {})

(* run_enhanced_scraper is entered (by monitor_cycle or by the scraper's main) *)
StartCycle ==
  /\ pc = "idle"
  /\ mon.phase # "init"
  /\ hist.cycles < MaxCycles
  /\ hist' = [hist EXCEPT !.cycles = @ + 1]
  /\ pc' = "scrape"
  /\ idx' = 1
  /\ all_results' = EmptyMap
  /\ final' = FinalResults(EmptyMap)
  /\ UNCHANGED <<today, tick, news, backup, live, ledger, mon, op, launcher, api, net>>

(* one iteration of the site loop: scrape_website, instant saving included *)
ScrapeSite ==
  /\ pc = "scrape"
  /\ idx <= NSites
  /\ \E arts \in Candidates(idx) :
       /\ all_results' = Put(all_results, idx, arts)
       /\ live' = SaveAllInstantly(live, arts, today)
  /\ idx' = idx + 1
  /\ UNCHANGED <<today, tick, news, backup, ledger, pc, final, mon, hist, op, launcher, api, net>>

(* the finally block starts (loop finished, shutdown signal or interrupt): *)
(* transfer_live_articles_to_final, which ends with clear_live_feed; the   *)
(* clear may fail, its exception is swallowed                               *)
Transfer ==
  /\ pc = "scrape"
  /\ \E clearOk \in BOOLEAN :
       LET arts == LiveArticles(live)
       IN /\ final' = TransferLive(FinalResults(all_results), arts)
          /\ live' = IF arts # <<>> /\ clearOk THEN ClearLiveFeed(today) ELSE live
  /\ pc' = "save"
  /\ UNCHANGED <<today, tick, news, backup, ledger, idx, all_results, mon, hist, op, launcher, api, net>>

(* json.dump(cleaned_results) into today's daily file, opened with 'w' *)
SaveDailyOk ==
  /\ pc = "save"
  /\ tick < MaxTick
  /\ LET doc == CleanFinalResults(final)
     IN news' = Put(news, DailyFileName(today, tick + 1),
                    [results |-> doc.results, total |-> doc.total,
                     mtime |-> tick + 1])
  /\ tick' = tick + 1
  /\ hist' = [hist EXCEPT !.saved[today] = IF @ < 2 THEN @ + 1 ELSE @]
  /\ pc' = "track"
  /\ UNCHANGED <<today, backup, live, ledger, idx, all_results, final, mon, op, launcher, api, net>>

(* the write fails (disk full, permission denied): the exception is re-raised *)
SaveDailyFail ==
  /\ pc = "save"
  /\ pc' = "idle"
  /\ idx' = 0
  /\ all_results' = EmptyMap
  /\ final' = FinalResults(EmptyMap)
  /\ UNCHANGED <<today, tick, news, backup, live, ledger, mon, hist, op, launcher, api, net>>

(* what run_enhanced_scraper gives its caller once the daily file is        *)
(* written: after bulk_add_scraped_urls the print at line 1937 evaluates    *)
(* Fore.GREEN, a name the module never binds; the NameError is caught at    *)
(* line 1943 and raised again, so the call ends with the exception          *)
Raised == [raised |-> TRUE, results |-> EmptyMap]
RunEnhancedScraperReturn(doc) == Raised

(* the loop of check_for_new_articles over the articles of the results: an  *)
(* article is new when its URL is neither in known_articles nor in the      *)
(* tracker file, and its URL is remembered                                  *)
RECURSIVE NewArticlesOf(_, _, _)
NewArticlesOf(arts, known, lines) ==
  IF arts = <<>> THEN <<>>
  ELSE LET a == Head(arts)
       IN IF a.url = <<>> \/ a.url \in known \/ IsUrlTracked(lines, a.url)
          THEN NewArticlesOf(Tail(arts), known, lines)
          ELSE <<a>> \o NewArticlesOf(Tail(arts), known \cup {a.url}, lines)

(* check_for_new_articles: {'error': ...} when the scraper raised *)
CheckForNewArticles(ret, known, lines) ==
  IF ret.raised THEN [error |-> TRUE, articles |-> <<>>]
  ELSE [error |-> FALSE,
        articles |-> NewArticlesOf(AllArticles(ret.results), known, lines)]

(* no monitor drives the cycle: nothing is checked *)
NotChecked == [error |-> TRUE, articles |-> <<>>]

(* append_new_articles, the tracker file: bulk_add_scraped_urls of the new  *)
(* articles                                                                 *)
AppendTracked(new, lines) ==
  IF new.error \/ new.articles = <<>> THEN lines
  ELSE BulkAddUrls(lines, new.articles, "scraped")

(* append_new_articles, the live file: flush_and_update_live_file replaces  *)
(* it by a document that holds the new articles under 'results'             *)
AppendNewArticles(new, lv, day) ==
  IF new.error \/ new.articles = <<>> THEN lv
  ELSE [articles |-> <<>>, fmt |-> "full", mday |-> day, results |-> new.articles]

(* the URLs of the articles a live file holds, under 'articles' or 'results' *)
LiveFileUrls(lv) ==
  UrlsOfSeq(LiveArticles(lv))
    \cup (IF "results" \in DOMAIN lv THEN UrlsOfSeq(lv.results) ELSE {})

(* save_scraped_urls_instantly and bulk_add_scraped_urls after the write;   *)
(* when the monitor runs the cycle, the rest of monitor_cycle:              *)
(* check_for_new_articles on what the scraper returned and                  *)
(* append_new_articles                                                      *)
Track ==
  /\ pc = "track"
  /\ \E known \in SUBSET FeedUrls :
       LET lines == TrackScrapedUrls(ledger["scraped"], final)
           new == IF mon.phase = "up"
                  THEN CheckForNewArticles(
                         RunEnhancedScraperReturn(CleanFinalResults(final)),
                         known, lines)
                  ELSE NotChecked
       IN /\ ledger' = [ledger EXCEPT !["scraped"] = AppendTracked(new, lines)]
          /\ live' = AppendNewArticles(new, live, today)
  /\ pc' = "idle"
  /\ idx' = 0
  /\ all_results' = EmptyMap
  /\ final' = FinalResults(EmptyMap)
  /\ UNCHANGED <<today, tick, news, backup, mon, hist, op, launcher, api, net>>

(* the process is killed: memory is lost, the files stay *)
Crash ==
  /\ pc # "idle"
  /\ pc' = "idle"
  /\ idx' = 0
  /\ all_results' = EmptyMap
  /\ final' = FinalResults(EmptyMap)
  /\ mon' = MonDown
  /\ UNCHANGED <<today, tick, news, backup, live, ledger, hist, op, launcher, api, net>>

(* midnight *)
DayAdvance ==
  /\ today < MaxDay
  /\ today' = today + 1
  /\ UNCHANGED <<tick, news, backup, live, ledger, pc, idx, all_results,
                 final, mon, hist, op, launcher, api, net>>

(* ============================== monitor ================================ *)
(* NewsMonitor24x7.__init__ up to setup_data_storage: both the backup      *)
(* manager and the monitor remember the date of construction                *)
MonitorConstruct ==
  /\ pc = "idle"
  /\ mon.phase = "down"
  /\ mon' = [phase |-> "init", current_date |-> today, bm_date |-> today,
             errors |-> 0]
  /\ UNCHANGED <<today, tick, news, backup, live, ledger, pc, idx, all_results,
                 final, hist, op, launcher, api, net>>

(* load_existing_articles: a live file without 'results' is recreated;      *)
(* get_or_create_daily_archive runs run_daily_backup when the date changed  *)
(* and creates today's archive when it is missing; a missing live file is   *)
(* created                                                                  *)
MonitorLoad ==
  /\ mon.phase = "init"
  /\ tick < MaxTick
  /\ \E out \in [DOMAIN news -> Outcomes], rmOk \in BOOLEAN :
       LET lv1 == IF live # NoFile /\ live.fmt = "bare"
                  THEN CreateInitialLiveFile(today) ELSE live
           changed == today # mon.current_date
           bk == IF changed
                 THEN BackupNewsFiles(news, backup, DOMAIN news, mon.bm_date, out)
                 ELSE [news |-> news, backup |-> backup]
           lv2 == IF changed THEN CleanupLiveFile(lv1, mon.bm_date, rmOk) ELSE lv1
           name == DailyFileName(today, tick + 1)
           missing == FilesOfDate(bk.news, today) = {}
       IN /\ (~changed => (rmOk /\ \A n \in DOMAIN news : out[n] = "ok"))
          /\ news' = IF missing THEN Put(bk.news, name, InitialArchive(tick + 1))
                     ELSE bk.news
          /\ tick' = IF missing THEN tick + 1 ELSE tick
          /\ backup' = bk.backup
          /\ live' = IF lv2 = NoFile THEN CreateInitialLiveFile(today) ELSE lv2
          /\ mon' = [mon EXCEPT !.phase = "up", !.current_date = today,
                                !.errors = IF changed
                                           THEN BackupErrors(news, backup, mon.bm_date, out)
                                           ELSE 0]
  /\ UNCHANGED <<today, ledger, pc, idx, all_results, final, hist, op, launcher, api, net>>

(* signal_handler: sys.exit(0) *)
MonitorStop ==
  /\ pc = "idle"
  /\ mon.phase = "up"
  /\ mon' = MonDown
  /\ UNCHANGED <<today, tick, news, backup, live, ledger, pc, idx, all_results,
                 final, hist, op, launcher, api, net>>

(* backup_manager.py main(): a fresh BackupManager runs run_daily_backup *)
StandaloneBackup ==
  /\ pc = "idle"
  /\ mon.phase # "init"
  /\ \E out \in [DOMAIN news -> Outcomes], rmOk \in BOOLEAN :
       LET bk == BackupNewsFiles(news, backup, DOMAIN news, today, out)
       IN /\ \A n \in DOMAIN news : ~ShouldBackupFile(n, today) => out[n] = "ok"
          /\ news' = bk.news
          /\ backup' = bk.backup
          /\ live' = CleanupLiveFile(live, today, rmOk)
          /\ (news' # news \/ backup' # backup \/ live' # live \/ 
              (rmOk /\ \A n \in DOMAIN news : out[n] = "ok"))
  /\ UNCHANGED <<today, tick, ledger, pc, idx, all_results, final, mon, hist, op, launcher, api, net>>

(* main_launch.py: the launcher constructs its BackupManager once (line 563) *)
LauncherStart ==
  /\ pc = "idle"
  /\ launcher = 0
  /\ launcher' = today
  /\ UNCHANGED <<today, tick, news, backup, live, ledger, pc, idx, all_results,
                 final, mon, hist, op, api, net>>

(* menu choice 11, run_backup_management: run_daily_backup of the launcher's *)
(* BackupManager, whose current_date is the date the launcher was started    *)
LauncherBackup ==
  /\ pc = "idle"
  /\ launcher # 0
  /\ mon.phase # "init"
  /\ \E out \in [DOMAIN news -> Outcomes], rmOk \in BOOLEAN :
       LET bk == BackupNewsFiles(news, backup, DOMAIN news, launcher, out)
       IN /\ \A n \in DOMAIN news : ~ShouldBackupFile(n, launcher) => out[n] = "ok"
          /\ news' = bk.news
          /\ backup' = bk.backup
          /\ live' = CleanupLiveFile(live, launcher, rmOk)
          /\ (news' # news \/ backup' # backup \/ live' # live \/
              (rmOk /\ \A n \in DOMAIN news : out[n] = "ok"))
  /\ UNCHANGED <<today, tick, ledger, pc, idx, all_results, final, mon, launcher,
                 hist, op, api, net>>

(* menu choice 13 *)
LauncherExit ==
  /\ pc = "idle"
  /\ launcher # 0
  /\ launcher' = 0
  /\ UNCHANGED <<today, tick, news, backup, live, ledger, pc, idx, all_results,
                 final, mon, hist, op, api, net>>

Next ==
  \/ StartCycle
  \/ ScrapeSite
  \/ Transfer
  \/ SaveDailyOk
  \/ SaveDailyFail
  \/ Track
  \/ Crash
  \/ DayAdvance
  \/ MonitorConstruct
  \/ MonitorLoad
  \/ MonitorStop
  \/ StandaloneBackup
  \/ LauncherStart
  \/ LauncherBackup
  \/ LauncherExit

Spec == Init /\ [][Next]_vars


(* ====================== backup manager, call by call =================== *)
(* run_daily_backup of a BackupManager object constructed on date launcher, *)
(* with the stats it returns and the directories before and after the call  *)
RunDailyBackup ==
  /\ launcher # 0
  /\ mon.phase # "init"
  /\ op.n < MaxOps
  /\ \E out \in [DOMAIN news -> Outcomes], rmOk \in BOOLEAN :
       LET bk == BackupNewsFiles(news, backup, DOMAIN news, launcher, out)
       IN /\ \A n \in DOMAIN news : ~ShouldBackupFile(n, launcher) => out[n] = "ok"
          /\ (live = NoFile \/ live.mday = launcher) => rmOk
          /\ news' = bk.news
          /\ backup' = bk.backup
          /\ live' = CleanupLiveFile(live, launcher, rmOk)
          /\ op' = [name |-> "rotate", n |-> op.n + 1, bm |-> launcher,
                    errors |-> BackupErrors(news, backup, launcher, out),
                    moved |-> BackedUp(news, backup, launcher, out),
                    news0 |-> news, backup0 |-> backup,
                    news1 |-> bk.news, backup1 |-> bk.backup]
  /\ UNCHANGED <<today, tick, ledger, pc, idx, all_results, final, mon, launcher,
                 hist, api, net>>

(* midnight, over the longer range of days of BackupSpec *)
BackupDayAdvance ==
  /\ today < MaxBackupDay
  /\ today' = today + 1
  /\ UNCHANGED <<tick, news, backup, live, ledger, pc, idx, all_results,
                 final, mon, launcher, hist, op, api, net>>

(* a daily file carries the date it was last written on in its name (both   *)
(* writers name it after the current date, copy2 keeps the mtime): its age  *)
(* in days; cutoff = now - keep_days removes it for sure when the age       *)
(* exceeds KeepDays and, depending on the time of day, when it equals it    *)
AgeDays(n) == today - n.date

(* CleanupService.cleanup_old_files: backups and daily files whose mtime is *)
(* before the cutoff are unlinked                                           *)
CleanupOldFiles ==
  /\ \E edge \in SUBSET { n \in (DOMAIN backup) \cup (DOMAIN news) :
                            AgeDays(n) = KeepDays } :
       LET old == { n \in (DOMAIN backup) \cup (DOMAIN news) :
                     AgeDays(n) > KeepDays } \cup edge
       IN /\ old # {}
          /\ backup' = [n \in (DOMAIN backup) \ old |-> backup[n]]
          /\ news' = [n \in (DOMAIN news) \ old |-> news[n]]
  /\ UNCHANGED <<today, tick, live, ledger, pc, idx, all_results, final, mon,
                 launcher, hist, op, api, net>>

BackupNext ==
  \/ MonitorConstruct
  \/ MonitorLoad
  \/ MonitorStop
  \/ BackupDayAdvance
  \/ CleanupOldFiles
  \/ LauncherStart
  \/ LauncherExit
  \/ RunDailyBackup

BackupSpec == Init /\ [][BackupNext]_vars

(* ===================== URL tracker, call by call ======================= *)
(* a caller of the tracker API (the summarizer's add_summarized_url, the   *)
(* scraper's and the monitor's bulk_add_scraped_urls): one call per step    *)
ItemLists == { <<>> } \cup { <<Article(u, 1, TRUE)>> : u \in Urls }
               \cup { <<Article(u, 1, TRUE), Article(v, 1, TRUE)>> : u \in Urls, v \in Urls }

TrackerAdd ==
  /\ op.n < MaxOps
  /\ \E st \in Stages, u \in Urls :
       /\ ledger' = [ledger EXCEPT ![st] = AddUrl(@, u, st)]
       /\ op' = [name |-> "add", n |-> op.n + 1, stage |-> st, url |-> u,
                 before |-> ledger[st], ret |-> AddUrlResult(ledger[st], u),
                 added |-> [op.added EXCEPT ![st] = @ \cup {u}],
                 items |-> <<>>, out |-> <<>>, count |-> 0]
  /\ UNCHANGED <<today, tick, news, backup, live, pc, idx, all_results, final,
                 mon, hist, launcher, api, net>>

TrackerBulkAdd ==
  /\ op.n < MaxOps
  /\ \E st \in Stages, items \in ItemLists :
       /\ ledger' = [ledger EXCEPT ![st] = BulkAddUrls(@, items, st)]
       /\ op' = [name |-> "bulk", n |-> op.n + 1, stage |-> st, url |-> <<>>,
                 before |-> ledger[st], ret |-> TRUE,
                 added |-> [op.added EXCEPT ![st] = @ \cup UrlsOfSeq(items)],
                 items |-> items, out |-> <<>>,
                 count |-> BulkAddCount(ledger[st], items)]
  /\ UNCHANGED <<today, tick, news, backup, live, pc, idx, all_results, final,
                 mon, hist, launcher, api, net>>

(* filter_new_articles / filter_unsummarized_articles on a list of articles *)
TrackerFilter ==
  /\ op.n < MaxOps
  /\ \E st \in Stages, items \in ItemLists :
       op' = [name |-> "filter", n |-> op.n + 1, stage |-> st, url |-> <<>>,
              before |-> ledger[st], ret |-> TRUE, added |-> op.added,
              items |-> items, out |-> FilterNewArticles(ledger[st], items),
              count |-> 0]
  /\ UNCHANGED <<today, tick, news, backup, live, ledger, pc, idx, all_results,
                 final, mon, launcher, hist, api, net>>

TrackerNext == TrackerAdd \/ TrackerBulkAdd \/ TrackerFilter

TrackerSpec == Init /\ [][TrackerNext]_vars

(* ===================== ledger file read at startup ===================== *)
(* lines that reach a ledger file from outside the tracker (damage, an     *)
(* editor): two entries, a line without separators, a line without URL,    *)
(* a line with bytes that are not UTF-8                                    *)
ForeignLines ==
  { FormatEntry(<<"a">>, "scraped"), FormatEntry(<<"b">>, "scraped"),
    <<"g">>, <<"|", "T", "|", "D">>, <<"g", BadByte>> }

LedgerTouched ==
  /\ Len(ledger["scraped"]) < Len(HeaderLines) + MaxLedgerLines
  /\ \E l \in ForeignLines :
       ledger' = [ledger EXCEPT !["scraped"] = Append(@, l)]
  /\ UNCHANGED <<today, tick, news, backup, live, pc, idx, all_results, final,
                 mon, hist, op, launcher, api, net>>

(* get_scraped_urls / get_summarized_urls *)
TrackerLoad ==
  /\ \E st \in Stages :
       op' = [NoOp EXCEPT !.name = "load", !.stage = st, !.before = ledger[st],
                          !.added = [x \in Stages |->
                                       IF x = st THEN LoadLedgerFile(ledger[st])
                                       ELSE {}]]
  /\ UNCHANGED <<today, tick, news, backup, live, ledger, pc, idx, all_results,
                 final, mon, launcher, hist, api, net>>

LoadNext == LedgerTouched \/ TrackerLoad

LoadSpec == Init /\ [][LoadNext]_vars

(* ========================= monitor start-up =========================== *)
(* NewsMonitor24x7.__init__ calls load_existing_articles; the live file or *)
(* today's archive on disk may be damaged (a write cut short). The date    *)
(* does not change in this specification                                    *)
MonitorStartup ==
  /\ mon.phase = "init"
  /\ \E liveBad \in BOOLEAN, archBad \in BOOLEAN :
       LET missing == FilesOfDate(news, today) = {}
           name == DailyFileName(today, tick + 1)
           create == missing /\ ~liveBad
       IN /\ liveBad => live # NoFile
          /\ archBad => ~liveBad /\ ~missing
          /\ create => tick < MaxTick
          /\ news' = IF create THEN Put(news, name, InitialArchive(tick + 1))
                     ELSE news
          /\ tick' = IF create THEN tick + 1 ELSE tick
          /\ live' = IF liveBad \/ archBad \/ live = NoFile \/ live.fmt = "bare"
                     THEN CreateInitialLiveFile(today) ELSE live
          /\ op' = [NoOp EXCEPT !.name = "startup", !.n = op.n,
                                !.before = ledger["scraped"],
                                !.out = <<liveBad, archBad>>,
                                !.added = [st \in Stages |->
                                   IF st = "scraped"
                                   THEN KnownArticles(news', ledger["scraped"], today,
                                                      liveBad, archBad)
                                   ELSE {}]]
  /\ mon' = [mon EXCEPT !.phase = "up"]
  /\ UNCHANGED <<today, backup, ledger, pc, idx, all_results, final, hist,
                 launcher, api, net>>

StartupNext ==
  \/ TrackerAdd
  \/ MonitorConstruct
  \/ MonitorStartup
  \/ MonitorStop

StartupSpec == Init /\ [][StartupNext]_vars

(* ======================= API cache layer, call by call ================= *)
pipeline == <<today, tick, news, backup, live, ledger, pc, idx, all_results,
              final, mon, launcher, hist, op>>

(* the result of a handler, as the next observation *)
ReadRecord(nm, g, b) ==
  [seq |-> 1 - api.last.seq, name |-> nm, tier |-> g.tier, ret |-> g.ret, body |-> b]

(* import of the module: REDIS_AVAILABLE is the outcome of the first ping *)
ApiStartup ==
  /\ ~api.started
  /\ api' = [api EXCEPT !.started = TRUE, !.avail = api.up]
  /\ UNCHANGED <<pipeline, net>>

(* the Redis server becomes unreachable: every client call raises *)
RedisFail ==
  /\ api.up
  /\ api' = [api EXCEPT !.up = FALSE]
  /\ UNCHANGED <<pipeline, net>>

RedisRecover ==
  /\ ~api.up
  /\ api' = [api EXCEPT !.up = TRUE]
  /\ UNCHANGED <<pipeline, net>>

(* time passes; Redis drops the keys whose TTL is over *)
ClockTick ==
  /\ api.now < MaxNow
  /\ LET t == api.now + 1
         keep(k) == IF k.exp > t THEN k ELSE NoKey
     IN api' = [api EXCEPT !.now = t, !.rdata = keep(@), !.rmtime = keep(@),
                           !.page = keep(@)]
  /\ UNCHANGED <<pipeline, net>>

(* the summarizer rewrites summarized_news_hf.json (open 'w', json.dump);   *)
(* the running observer will deliver modify events for it                   *)
FileUpdate ==
  /\ api.now > api.file.mtime
  /\ \E d \in Contents :
       /\ api.file.exists => d # api.file.data
       /\ api' = [api EXCEPT !.file = [exists |-> TRUE, data |-> d, mtime |-> api.now],
                             !.ev = IF api.started THEN EventsPerWrite ELSE 0]
  /\ UNCHANGED <<pipeline, net>>

(* NewsFileWatcher.on_modified for the summarized file *)
OnModified ==
  /\ api.started
  /\ api.ev > 0
  /\ api' = [api EXCEPT !.ev = @ - 1, !.local = NoLocal,
                        !.last = [seq |-> 1 - api.last.seq, name |-> "signal",
                                  tier |-> "none", ret |-> NoData, body |-> NoData]]
  /\ UNCHANGED <<pipeline, net>>

(* load_articles_from_file("summarized_news_hf.json"): get_fresh_news_data *)
LoadArticlesFromFile ==
  /\ api.started
  /\ LET g == GetFreshNewsData(api)
     IN api' = [api EXCEPT !.local = g.local, !.rdata = g.rdata, !.rmtime = g.rmtime,
                           !.last = ReadRecord("read", g, g.ret)]
  /\ UNCHANGED <<pipeline, net>>

(* GET /api/news: response_cache_middleware around get_all_news *)
ApiGetNews ==
  /\ api.started
  /\ LET g == GetAllNews(api)
     IN api' = [api EXCEPT !.local = g.local, !.rdata = g.rdata, !.rmtime = g.rmtime,
                           !.page = g.page,
                           !.last = ReadRecord("news", g, ResponseCacheMiddleware(api, g.ret))]
  /\ UNCHANGED <<pipeline, net>>

(* POST /api/refresh-cache: invalidate_distributed_cache, then get_fresh_news_data *)
RefreshNewsCache ==
  /\ api.started
  /\ LET i == InvalidateDistributedCache(api)
         a1 == [api EXCEPT !.local = i.local, !.rdata = i.rdata, !.rmtime = i.rmtime]
         g == GetFreshNewsData(a1)
     IN api' = [api EXCEPT !.local = g.local, !.rdata = g.rdata, !.rmtime = g.rmtime,
                           !.last = ReadRecord("refresh", g, g.ret)]
  /\ UNCHANGED <<pipeline, net>>

CacheNext ==
  \/ ApiStartup
  \/ RedisFail
  \/ RedisRecover
  \/ ClockTick
  \/ FileUpdate
  \/ OnModified
  \/ LoadArticlesFromFile
  \/ ApiGetNews
  \/ RefreshNewsCache

CacheSpec == Init /\ [][CacheNext]_vars

(* ---------------------------- fetch loop ------------------------------- *)
(* run_enhanced_scraper starts its site loop *)
CycleStart ==
  /\ net.pc \in {"idle", "done"}
  /\ net' = [NetIdle EXCEPT !.pc = "attempt", !.i = 1]
  /\ UNCHANGED <<pipeline, api>>

(* one iteration of the attempt loop of scrape_website: the retry delay,   *)
(* crawler.arun under wait_for, and the except clauses. The hard timeout   *)
(* of the site cancels the task once; the attempt loop catches the         *)
(* CancelledError like a timeout and goes on                               *)
SiteAttempt ==
  /\ net.pc = "attempt"
  /\ \E u \in DelayFactors, d \in AttemptDurations(net.i), ok \in BOOLEAN :
       LET k == net.attempt
           delay == IF k > 0 THEN u * k ELSE 0
           end == net.site_t + delay + d
           cut == ~net.cancelled /\ end > HardTimeout
           out == IF cut \/ d >= AttemptTimeout(net.i) THEN "timeout"
                  ELSE IF ok THEN "ok" ELSE "fail"
           t1 == IF cut THEN HardTimeout ELSE end
           n1 == [net EXCEPT !.site_t = t1, !.delay = delay,
                             !.cancelled = @ \/ cut]
       IN /\ k = 0 => u = 1
          /\ net' = IF out = "ok" THEN [n1 EXCEPT !.pc = "articles"]
                    ELSE IF k = Retries(net.i)
                    THEN [n1 EXCEPT !.pc = "site_done", !.ret = "error"]
                    ELSE [n1 EXCEPT !.attempt = k + 1]
  /\ UNCHANGED <<pipeline, api>>

(* the article loop of scrape_website. The cancellation of the hard timeout *)
(* is swallowed when it lands in scrape_article_content and ends the site   *)
(* when it lands in the delay between two articles                          *)
ScrapeArticles ==
  /\ net.pc = "articles"
  /\ \E d \in ArticleDurations(net.i), swallowed \in BOOLEAN :
       LET end == net.site_t + d
           cut == ~net.cancelled /\ end > HardTimeout
       IN /\ ~cut => swallowed
          /\ net' = IF cut /\ ~swallowed
                    THEN [net EXCEPT !.site_t = HardTimeout, !.cancelled = TRUE,
                                     !.ret = "cancelled", !.pc = "site_done"]
                    ELSE [net EXCEPT !.site_t = end, !.cancelled = @ \/ cut,
                                     !.ret = "ok", !.pc = "site_done"]
  /\ UNCHANGED <<pipeline, api>>

(* asyncio.wait_for(scrape_website, 180) is over: the site's data, or      *)
(* TimeoutError. When the task finished after swallowing the cancellation, *)
(* wait_for returns its result or raises TimeoutError, depending on the    *)
(* Python version                                                           *)
SiteDone ==
  /\ net.pc = "site_done"
  /\ \E sd \in SiteDelays, raised \in BOOLEAN :
       LET kind == IF net.ret = "cancelled" \/ (net.cancelled /\ raised)
                   THEN "timeout" ELSE net.ret
       IN /\ ~net.cancelled => ~raised
          /\ net.i = NSites => sd = 1
          /\ net' = AfterSite(net, kind, sd)
  /\ UNCHANGED <<pipeline, api>>

(* the finally block: transfer and daily file *)
Finally ==
  /\ net.pc = "finally"
  /\ net' = [net EXCEPT !.merged = TRUE, !.pc = "done"]
  /\ UNCHANGED <<pipeline, api>>

FetchNext ==
  \/ CycleStart
  \/ SiteAttempt
  \/ ScrapeArticles
  \/ SiteDone
  \/ Finally

FetchSpec == Init /\ [][FetchNext]_vars


(* the URL records of a ledger file, in file order *)
RECURSIVE RecordsOf(_)
RecordsOf(lines) ==
  IF lines = <<>> THEN <<>>
  ELSE LET line == Strip(Head(lines))
       IN (IF line # <<>> /\ Head(line) # "#"
           THEN << Strip(FirstPart(line)) >> ELSE <<>>) \o RecordsOf(Tail(lines))

NoDuplicates(s) == \A i, j \in 1..Len(s) : s[i] = s[j] => i = j

(* ------------------------------- C9 ------------------------------------ *)
(* C9: contains(url, stage) is true iff a record for (url, stage) exists:   *)
(* after add(u, domain, stage) contains(u, stage) is true and               *)
(* filterNew([u], stage) is empty, and contains is false for a URL that was *)
(* never added at that stage.                                               *)
C9_ContainsIffAdded ==
  \A st \in Stages, u \in Urls :
    /\ u \in op.added[st] =>
         /\ IsUrlTracked(ledger[st], u)
         /\ FilterNewArticles(ledger[st], <<Article(u, 1, TRUE)>>) = <<>>
    /\ u \notin op.added[st] => ~IsUrlTracked(ledger[st], u)

(* ------------------------------- C10 ----------------------------------- *)
(* C10: add is idempotent: after any sequence of add and bulkAdd calls the  *)
(* ledger holds at most one record per (url, stage), and re-adding a URL    *)
(* already recorded at that stage leaves the ledger file unchanged.         *)
C10_AddIdempotent ==
  \A st \in Stages :
    /\ NoDuplicates(RecordsOf(ledger[st]))
    /\ (op.name = "add" /\ op.stage = st
          /\ FormatEntry(op.url, st) \in Range(op.before))
         => ledger[st] = op.before

(* ------------------------------- C11 ----------------------------------- *)
(* C11: add(url, domain, stage) returns TRUE exactly when no record for      *)
(* (url, stage) existed before the call, and FALSE when the URL was already *)
(* recorded.                                                                *)
C11_AddReturnsNewlyAdded ==
  op.name = "add" =>
    (op.ret <=> FormatEntry(op.url, op.stage) \notin Range(op.before))

(* ------------------------------- C12 ----------------------------------- *)
(* C12: bulkAdd(items, stage) returns the number of URLs the call newly     *)
(* added, i.e. the number of records it appended to the ledger.             *)
C12_BulkAddCountsNew ==
  op.name = "bulk" => op.count = Len(ledger[op.stage]) - Len(op.before)

UrlSeq(arts) == [i \in 1..Len(arts) |-> arts[i].url]
ScrapedLines == ledger["scraped"]

(* ------------------------------- C1 ------------------------------------ *)
(* C1: merging the same live-feed contents into the results twice in a row  *)
(* yields the same document as merging them once (no URL twice in a         *)
(* per-source collection, totals unchanged).                                *)
C1_MergeIdempotent ==
  pc = "scrape" =>
    LET feed == LiveArticles(live)
        once == TransferLive(FinalResults(all_results), feed)
        twice == TransferLive(once, feed)
    IN /\ twice = once
       /\ \A k \in DOMAIN once.results :
            NoDuplicates(UrlSeq(SelectSeq(once.results[k], LAMBDA a : a.ok)))

(* ------------------------------- C2 ------------------------------------ *)
(* C2: when a cycle persists the archive of date D, every Article that was  *)
(* in the file for D before the write is still in it after the write (a     *)
(* later cycle never drops or replaces earlier Articles).                   *)
C2_ArchiveAppendOnly ==
  [][(pc = "save" /\ pc' = "track") =>
       \A n \in FilesOfDate(news, today) :
         /\ n \in DOMAIN news'
         /\ UrlsOfResults(news[n].results) \subseteq UrlsOfResults(news'[n].results)]_vars

(* ------------------------------- C3 ------------------------------------ *)
(* C3: when persisting the daily archive fails, no URL of the cycle is      *)
(* written to the ledger and the live feed still holds the cycle's          *)
(* unprocessed Articles.                                                    *)
C3_FailedSaveKeepsBuffer ==
  [][(pc = "save" /\ pc' = "idle") =>
       /\ ledger' = ledger
       /\ UrlsOfResults(CleanFinalResults(final).results)
            \subseteq UrlsOfSeq(LiveArticles(live'))]_vars

(* ------------------------------- C4 ------------------------------------ *)
(* C4: a ledger line is appended only for a URL whose Article is in a       *)
(* persisted daily archive at that moment.                                  *)
C4_LedgerAfterArchive ==
  [][\A i \in (Len(ledger["scraped"]) + 1)..Len(ledger'["scraped"]) :
       \E u \in ArchiveUrls(news') :
         ledger'["scraped"][i] = FormatEntry(u, "scraped")]_vars

C4_Witness ==
  /\ pc = "idle"
  /\ Len(ScrapedLines) > Len(HeaderLines)
  /\ ScrapedLines[Len(ScrapedLines)] \in
       { FormatEntry(u, "scraped") : u \in ArchiveUrls(news) }

(* ------------------------------- C5 ------------------------------------ *)
(* C5: the live feed is emptied only when all of its Articles are in the    *)
(* persisted daily archive.                                                 *)
C5_FlushAfterPersist ==
  [][(LiveArticles(live) # <<>> /\ LiveArticles(live') = <<>>) =>
       UrlsOfSeq(LiveArticles(live)) \subseteq ArchiveUrls(news')]_vars

(* ------------------------------- C6 ------------------------------------ *)
(* C6: every Article URL occurs at most once in a daily archive, whatever   *)
(* cycles, crashes and restarts happened.                                   *)
C6_UrlAtMostOnce ==
  \A n \in DOMAIN news : NoDuplicates(UrlSeq(AllArticles(news[n].results)))

(* ------------------------------- C7 ------------------------------------ *)
(* C7: once the monitor, started on date D, has completed a tick on a later *)
(* date (today's archive exists), there is exactly one backup artifact for  *)
(* D and D's archive has left the data directory.                           *)
C7_RolloverBacksUp ==
  (pc = "idle" /\ mon.phase = "up" /\ mon.current_date < today
     /\ FilesOfDate(news, today) # {}) =>
    /\ Cardinality(FilesOfDate(backup, mon.current_date)) = 1
    /\ FilesOfDate(news, mon.current_date) = {}

C15_DeleteAfterCopy ==
  [][\A n \in DOMAIN news :
       n \notin DOMAIN news' =>
         /\ n \in DOMAIN backup'
         /\ backup'[n] = news[n]]_vars

C15_Witness ==
  \E n \in DOMAIN backup :
    /\ n \notin DOMAIN news
    /\ UrlsOfResults(backup[n].results) # {}

(* ------------------------------- C16 ----------------------------------- *)
(* C16: a rotation that directly follows a completed rotation of the same   *)
(* manager, with the directories as that rotation left them, is a no-op: it *)
(* creates no backup file, changes no backup, moves nothing and reports     *)
(* zero errors.                                                             *)
C16_RotateTwiceNoOp ==
  [][(/\ op.name = "rotate" /\ op'.name = "rotate" /\ op'.n = op.n + 1
      /\ op.errors = 0 /\ op.bm = launcher
      /\ news = op.news1 /\ backup = op.backup1) =>
       /\ backup' = backup
       /\ news' = news
       /\ op'.moved = 0
       /\ op'.errors = 0]_vars

C16_Witness ==
  /\ op.name = "rotate" /\ op.n >= 2
  /\ op.news0 = news /\ op.backup0 = backup
  /\ backup # EmptyMap
  /\ op.moved = 0 /\ op.errors = 0

(* ------------------------------- C17 ----------------------------------- *)
(* C17: a rotation that selects a file which an earlier rotation copied but *)
(* failed to delete, and that reports no error, finishes the move: the      *)
(* original is removed and the backup store holds exactly one artifact for  *)
(* that date, with the same content.                                        *)
C17_PartialRotationRetry ==
  [][(op'.name = "rotate" /\ op'.n = op.n + 1 /\ op'.errors = 0) =>
       \A n \in (DOMAIN news) \cap (DOMAIN backup) :
         (ShouldBackupFile(n, launcher) /\ backup[n] = news[n]) =>
           /\ n \notin DOMAIN news'
           /\ Cardinality(FilesOfDate(backup', n.date)) = 1
           /\ backup'[n] = news[n]]_vars

C17_Witness ==
  /\ op.name = "rotate" /\ op.errors = 0
  /\ \E n \in (DOMAIN op.news0) \cap (DOMAIN op.backup0) :
       /\ op.backup0[n] = op.news0[n]
       /\ n \notin DOMAIN news
       /\ n \in DOMAIN backup

(* ------------------------------- C19 ----------------------------------- *)
(* C19: after a rotation no backup older than the retention horizon is left *)
(* in the backup store, and the rotation deletes no backup younger than the *)
(* horizon.                                                                 *)
C19_RotatePrunes ==
  [][(op'.name = "rotate" /\ op'.n = op.n + 1) =>
       /\ \A n \in DOMAIN backup' : AgeDays(n) <= KeepDays
       /\ \A n \in DOMAIN backup : AgeDays(n) < KeepDays => n \in DOMAIN backup']_vars

(* ------------------------------- C18 ----------------------------------- *)
(* C18: a rotation never moves or deletes today's archive, today being the  *)
(* calendar date at the moment the rotation runs, also when the process has *)
(* been running across midnight.                                            *)
C18_RotateKeepsToday ==
  [][\A n \in FilesOfDate(news, today) :
       today' = today => n \in DOMAIN news']_vars

(* ------------------------------- C20 ----------------------------------- *)
(* C20: a day-boundary check of the monitor that detects a new day leaves   *)
(* an archive for the new day whatever the rotation did (ingestion is not   *)
(* blocked), and unless its rotation reported errors no stale archive is    *)
(* left in the data directory (the files still stale are rotated again).    *)
C20_RolloverFailureRetried ==
  [][(mon.phase = "init" /\ mon'.phase = "up" /\ mon.current_date # today) =>
       /\ FilesOfDate(news', today) # {}
       /\ mon'.errors = 0 => \A n \in DOMAIN news' : n.date = today]_vars

(* ------------------------------- C14 ----------------------------------- *)
(* C14: the ledger is append-only: every step (cycle, tracker call, backup, *)
(* crash, restart) leaves the lines already in each stage's file in place   *)
(* and unchanged (the set of recorded URLs, a union over the lines, then    *)
(* only grows).                                                             *)
C14_LedgerAppendOnly ==
  [][\A st \in Stages :
       /\ Len(ledger[st]) <= Len(ledger'[st])
       /\ SubSeq(ledger'[st], 1, Len(ledger[st])) = ledger[st]]_vars

C14_Witness ==
  /\ Len(ledger["scraped"]) > Len(HeaderLines) + 1
  /\ backup # EmptyMap
  /\ mon.phase = "up"

C22_InvalidationBypassesTiers ==
  [][/\ (/\ api.last.name \in {"signal", "refresh"}
         /\ api.file.exists
         /\ api'.last.seq # api.last.seq
         /\ api'.last.name \in {"read", "news"}) =>
          /\ api'.last.ret = api.file.data
          /\ api.last.name = "signal" => api'.last.tier = "disk"
     /\ (/\ api.file.exists
         /\ api'.last.seq # api.last.seq
         /\ api'.last.name = "refresh") =>
          /\ api'.last.tier = "disk"
          /\ api'.last.ret = api.file.data]_vars

(* ------------------------------- C23 ----------------------------------- *)
(* C23: while the Redis server is unreachable every read (a call of         *)
(* get_fresh_news_data, GET /api/news, POST /api/refresh-cache) still       *)
(* delivers the content of the file to its caller.                          *)
C23_RedisFailureNotSurfaced ==
  [][(/\ api.avail /\ ~api.up
      /\ api.file.exists
      /\ api'.last.seq # api.last.seq
      /\ api'.last.name \in {"read", "news", "refresh"}) =>
       api'.last.body = api.file.data]_vars

(* ------------------------------- C24 ----------------------------------- *)
(* C24: what GET /api/news delivers is the content of the file, or, for     *)
(* less than the shared-tier TTL after the file's last update, an older     *)
(* content.                                                                 *)
C24_StalenessBound ==
  [][(/\ api.file.exists
      /\ api'.last.seq # api.last.seq
      /\ api'.last.name = "news") =>
       \/ api'.last.body = api.file.data
       \/ /\ api'.last.body \in Contents
          /\ api.now < api.file.mtime + DataTTL]_vars

(* ------------------------------- C25 ----------------------------------- *)
(* C25: when a cycle's write of the daily file succeeds (the merge), the    *)
(* live feed holds no article.                                              *)
C25_LiveEmptyAfterMerge ==
  [][(pc = "save" /\ pc' = "track") => LiveArticles(live') = <<>>]_vars

(* ------------------------------- C26 ----------------------------------- *)
(* C26: the articles left in the live feed by an aborted cycle stay on disk *)
(* while no cycle is running (restart of the monitor, backup runs and       *)
(* midnight included), so that the next cycle can merge them.               *)
C26_AbortedBufferKept ==
  [][pc = "idle" =>
       UrlsOfSeq(LiveArticles(live)) \subseteq UrlsOfSeq(LiveArticles(live'))]_vars

(* ------------------------------- C27 ----------------------------------- *)
(* C27: the live feed never holds two articles with the same URL.           *)
C27_LiveOnePerUrl == NoDuplicates(UrlSeq(LiveArticles(live)))

(* two sites of one cycle yielded the same URL with content; the feed holds *)
(* it once                                                                  *)
C27_Witness ==
  /\ pc = "scrape"
  /\ \E s, t \in DOMAIN all_results :
       /\ s # t
       /\ \E i \in 1..Len(all_results[s]), j \in 1..Len(all_results[t]) :
            /\ all_results[s][i].url = all_results[t][j].url
            /\ all_results[s][i].ok /\ all_results[t][j].ok
            /\ all_results[s][i].url \in UrlsOfSeq(LiveArticles(live))

(* ------------------------------- C28 ----------------------------------- *)
(* C28: a site whose fetch fails is given all its retries + 1 attempts,     *)
(* then gets an error entry, and the loop goes on with the next site or,    *)
(* after the last one, with the merge; a finished cycle has an entry for    *)
(* every site and has merged.                                               *)
C28_FailingSiteSkipped ==
  [][/\ (net.pc = "attempt" /\ net'.pc = "site_done") =>
          /\ net.attempt = Retries(net.i)
          /\ net'.ret = "error"
     /\ (net.pc = "site_done" /\ net.ret # "ok") =>
          /\ Len(net'.entries) = net.i
          /\ net'.entries[net.i] \in {"error", "timeout"}
          /\ IF net.i < NSites
             THEN net'.pc = "attempt" /\ net'.i = net.i + 1 /\ net'.attempt = 0
             ELSE net'.pc = "finally"
     /\ net'.pc = "done" => (net'.merged /\ Len(net'.entries) = NSites)]_vars

(* the first site failed after its retries, a later one succeeded, the     *)
(* cycle merged                                                            *)
C28_Witness ==
  /\ net.pc = "done" /\ net.merged
  /\ net.entries[1] = "error"
  /\ \E s \in 2..NSites : net.entries[s] = "ok"

(* ------------------------------- C29 ----------------------------------- *)
(* C29: no site is tried more than retries + 1 times, and the time a cycle  *)
(* has spent never exceeds a cap that depends on the configuration only.    *)
C29_CycleBounded ==
  /\ net.i \in 1..NSites => net.attempt <= Retries(net.i)
  /\ net.cycle_t + net.site_t <= CycleCap

(* a cycle finished although the last site never answered and took longer  *)
(* than the hard timeout                                                    *)
C29_Witness ==
  /\ net.pc = "finally"
  /\ net.entries[NSites] \in {"error", "timeout"}
  /\ net.cycle_t > NSites * HardTimeout

(* ------------------------------- C30 ----------------------------------- *)
(* C30: an attempt takes no longer than the site's timeout, a site gets at  *)
(* most retries + 1 attempts, and the delay before each retry is larger     *)
(* than the delay before the previous one.                                  *)
C30_IncreasingBackoff ==
  [][(net.pc = "attempt" /\ net' # net) =>
       /\ net'.site_t - net.site_t - net'.delay <= AttemptTimeout(net.i)
       /\ net.attempt <= Retries(net.i)
       /\ net.attempt >= 2 => net'.delay > net.delay]_vars

(* ------------------------------- C31 ----------------------------------- *)
(* the URLs of the well-formed entries of a ledger file *)
WellFormedUrls(lines) ==
  { u \in {<<"a">>, <<"b">>} :
      \E i \in 1..Len(lines) : \E st \in Stages : lines[i] = FormatEntry(u, st) }

(* C31: loading a ledger returns normally and the set it returns holds the  *)
(* URL of every well-formed line of the file, whatever the other lines are. *)
C31_MalformedLinesSkipped ==
  op.name = "load" =>
    /\ op.ret
    /\ WellFormedUrls(op.before) \subseteq op.added[op.stage]

(* ------------------------------- C32 ----------------------------------- *)
(* C32: load_existing_articles returns normally, and the URLs of the ledger *)
(* are in known_articles afterwards, also when the live file or today's     *)
(* archive is damaged.                                                      *)
C32_CorruptDocumentTolerated ==
  op.name = "startup" =>
    /\ op.ret
    /\ LoadLedgerFile(op.before) \subseteq op.added["scraped"]

C34_EndToEndCounts ==
  [][(pc = "save" /\ pc' = "track") =>
       LET n == DailyFileName(today, tick + 1)
           old == IF n \in DOMAIN news THEN news[n].results ELSE EmptyMap
           accepted == UrlsOfResults(CleanFinalResults(final).results)
                         \ UrlsOfResults(old)
       IN (AllArticles(old) # <<>> /\ accepted # {}) =>
            Len(AllArticles(news'[n].results))
              = Len(AllArticles(old)) + Cardinality(accepted)]_vars

(* ------------------------------- C35 ----------------------------------- *)
(* C35: in the daily file a cycle writes, the total equals the sum of the   *)
(* lengths of the per-site article lists and each site's articles_found     *)
(* equals the length of that site's list.                                   *)
C35_TotalsRecomputed ==
  [][(pc = "save" /\ pc' = "track") =>
       LET doc == news'[DailyFileName(today, tick + 1)]
       IN /\ doc.total = SumLens(doc.results, DOMAIN doc.results)
          /\ \A k \in DOMAIN doc.results :
               ArticlesFound(final, k) = Len(doc.results[k])]_vars

(* ------------------------------- C36 ----------------------------------- *)
(* C36: every article a cycle writes to the live feed has a URL that the    *)
(* ledger does not hold (the ledger is as it was when the cycle started: it *)
(* is written only after the daily file).                                   *)
C36_LiveAbsentFromTracker ==
  [][(pc = "scrape" /\ pc' = "scrape") =>
       \A u \in UrlsOfSeq(LiveArticles(live')) \ UrlsOfSeq(LiveArticles(live)) :
         u \notin ProcessedUrls]_vars

(* ============ rotation of the summarized file, call by call ============ *)
(* data/summarized_news_hf.json; its document is [mtime, mday]: the logical *)
(* modification time and the calendar date of that time                     *)
SummarizedFile == [kind |-> "summarized_news_hf", date |-> 0]

(* f"{stem}_{file_date}.json" in data/backup *)
DatedName(stem, d) == [kind |-> stem, date |-> d]

(* backup_completed_<date>.lock in data/backup *)
LockName(d) == [kind |-> "backup_completed", date |-> d]

(* backup_file_with_date: the backup directory after the call; the copy is  *)
(* skipped when the target exists and the source is not newer, copy2 keeps  *)
(* the modification time                                                    *)
BackupFileWithDate(src, bk, name, copyOk) ==
  IF BackupUpToDate(src, bk, name) THEN bk
  ELSE IF copyOk THEN Put(bk, name, src) ELSE bk

(* backup_previous_summarized_file of a BackupManager constructed on        *)
(* bm_date: the backup directory after the call                             *)
BackupPreviousSummarizedFile(dir, bk, bm_date, copyOk) ==
  IF SummarizedFile \notin DOMAIN dir THEN bk
  ELSE LET src == dir[SummarizedFile]
       IN IF src.mday # bm_date
          THEN BackupFileWithDate(src, bk, DatedName("summarized_news_hf", src.mday),
                                  copyOk)
          ELSE bk

(* its return value: False when the copy was attempted and failed *)
BackupPreviousReturns(dir, bk, bm_date, copyOk) ==
  \/ SummarizedFile \notin DOMAIN dir
  \/ dir[SummarizedFile].mday = bm_date
  \/ BackupUpToDate(dir[SummarizedFile], bk,
                    DatedName("summarized_news_hf", dir[SummarizedFile].mday))
  \/ copyOk

(* the observation of one rotator call *)
RotOp(name, date, ret) ==
  [name |-> name, n |-> (op.n % 2) + 1, date |-> date, ret |-> ret]

(* the scraper's save_article_instantly writes the first article of a cycle *)
(* into the live feed                                                       *)
LiveSave ==
  /\ LiveArticles(live) = <<>>
  /\ live' = SaveArticleInstantly(live, Article(<<"a">>, 1, TRUE), today)
  /\ UNCHANGED <<today, tick, news, backup, ledger, pc, idx, all_results, final,
                 mon, launcher, hist, op, api, net>>

(* enhanced_ai_summarizer.py main(): a fresh EnhancedAISummarizer (its      *)
(* BackupManager is constructed now) runs run_summarization: the previous   *)
(* file is backed up, and once more before the new one is written; nothing  *)
(* is written when no article was found ("none") or none was summarized     *)
(* ("no_summaries"); the live file is cleared after processing              *)
SummarizerRun ==
  /\ tick < MaxRotTick
  /\ \E res \in {"none", "no_summaries", "saved"}, ok1 \in BOOLEAN, ok2 \in BOOLEAN :
       LET bk1 == BackupPreviousSummarizedFile(news, backup, today, ok1)
           bk2 == BackupPreviousSummarizedFile(news, bk1, today, ok2)
       IN /\ backup' = IF res = "saved" THEN bk2 ELSE bk1
          /\ res # "saved" => ok2
          /\ news' = IF res = "saved"
                     THEN Put(news, SummarizedFile, [mtime |-> tick + 1, mday |-> today])
                     ELSE news
          /\ tick' = IF res = "saved" THEN tick + 1 ELSE tick
          /\ live' = IF res # "none" /\ live # NoFile THEN ClearLiveFeed(today)
                     ELSE live
          /\ (res = "saved" \/ backup' # backup \/ live' # live)
  /\ UNCHANGED <<today, ledger, pc, idx, all_results, final, mon, launcher, hist,
                 op, api, net>>

(* backup_previous_summarized_file of the launcher's BackupManager, whose   *)
(* current_date is the date the launcher was started (auto_backup_on_startup, *)
(* also menu choice 2)                                                      *)
LauncherBackupPrevious ==
  /\ launcher # 0
  /\ \E copyOk \in BOOLEAN :
       /\ backup' = BackupPreviousSummarizedFile(news, backup, launcher, copyOk)
       /\ op' = RotOp("backup_previous_summarized_file", launcher,
                      BackupPreviousReturns(news, backup, launcher, copyOk))
  /\ UNCHANGED <<today, tick, news, live, ledger, pc, idx, all_results, final,
                 mon, launcher, hist, api, net>>

(* AutomationService.backup_old_files: returns at once when today's lock    *)
(* exists; the live file and the summarized file are copied when they were  *)
(* last modified on another day and no backup of that day's name exists; a  *)
(* failing copy raises and ends the call before the lock is written. The    *)
(* removal of backups older than 30 days and of locks older than 7 days is  *)
(* beyond the days of the model                                             *)
BackupOldFiles ==
  /\ \E okL \in BOOLEAN, okS \in BOOLEAN :
       LET locked == LockName(today) \in DOMAIN backup
           nameL == DatedName("cybersecurity_news_live", live.mday)
           doL == live # NoFile /\ live.mday # today /\ nameL \notin DOMAIN backup
           bkL == IF doL /\ okL THEN Put(backup, nameL, live) ELSE backup
           hasS == SummarizedFile \in DOMAIN news
           nameS == DatedName("summarized_news_hf", news[SummarizedFile].mday)
           doS == hasS /\ news[SummarizedFile].mday # today
                       /\ nameS \notin DOMAIN bkL
           bkS == IF doS /\ okS THEN Put(bkL, nameS, news[SummarizedFile]) ELSE bkL
           raised == (doL /\ ~okL) \/ (doS /\ ~okS)
       IN /\ ~doL => okL
          /\ (~doS \/ (doL /\ ~okL)) => okS
          /\ backup' = IF locked THEN backup
                       ELSE IF doL /\ ~okL THEN backup
                       ELSE IF raised THEN bkL
                       ELSE Put(bkS, LockName(today), [mtime |-> 0, mday |-> today])
          /\ op' = RotOp("backup_old_files", today, locked \/ ~raised)
  /\ UNCHANGED <<today, tick, news, live, ledger, pc, idx, all_results, final,
                 mon, launcher, hist, api, net>>

RotateNext ==
  \/ LiveSave
  \/ SummarizerRun
  \/ LauncherStart
  \/ LauncherExit
  \/ LauncherBackupPrevious
  \/ BackupOldFiles
  \/ BackupDayAdvance

RotateSpec == Init /\ [][RotateNext]_vars

(* C37: a call that rotates the stale summarized file while a backup of its *)
(* date exists leaves that backup as it is when the source is not newer,    *)
(* and replaces it by the source when the source is newer (and no copy      *)
(* failed)                                                                  *)
C37_NewerSourceOverwrites ==
  [][(op'.n # op.n /\ SummarizedFile \in DOMAIN news) =>
       LET src == news[SummarizedFile]
           name == DatedName("summarized_news_hf", src.mday)
       IN (src.mday # op'.date /\ name \in DOMAIN backup) =>
            /\ src.mtime <= backup[name].mtime => backup'[name] = backup[name]
            /\ (src.mtime > backup[name].mtime /\ op'.ret) => backup'[name] = src]_vars

(* C38: when a cycle run by the monitor ends, every article it accepted     *)
(* (in the saved results, URL not in the tracker when the cycle started) is *)
(* among the articles check_for_new_articles reports, whatever the monitor  *)
(* remembered, and is in the live file                                      *)
C38_AcceptedReportedAndLive ==
  [][(pc = "track" /\ pc' = "idle" /\ mon.phase = "up") =>
       LET doc == CleanFinalResults(final)
           accepted == UrlsOfResults(doc.results) \ ProcessedUrls
           new == CheckForNewArticles(RunEnhancedScraperReturn(doc), {},
                                      ledger'["scraped"])
       IN \A u \in accepted :
            /\ u \in UrlsOfSeq(new.articles)
            /\ u \in LiveFileUrls(live')]_vars

(* ===================== smart scraping decision ========================= *)
(* os.getenv defaults of should_scrape_now *)
BusinessStart == 6
BusinessEnd == 22
MaxDataAgeHours == 2
MinArticles == 10
MaxArticles == 100
MinSources == 3
MinRecent == 5

Hours == 0..23
Ages == 0..MaxAge
Counts == {0, MinArticles - 1, MinArticles, MaxArticles - 1, MaxArticles, MaxArticles + 1}
SourceCounts == {0, MinSources - 1, MinSources}
RecentCounts == {0, MinRecent}

(* today's daily file as should_scrape_now sees it: whether it exists, the  *)
(* whole hours since its modification, whether json.load fails, the number  *)
(* of articles, of sources and of articles of the last six hours            *)
TodayFiles ==
  { [exists |-> FALSE, age |-> 0, corrupt |-> FALSE, count |-> 0, sources |-> 0,
     recent |-> 0] } \cup
  { [exists |-> TRUE, age |-> a, corrupt |-> TRUE, count |-> 0, sources |-> 0,
     recent |-> 0] : a \in Ages } \cup
  { f \in [exists : {TRUE}, age : Ages, corrupt : {FALSE}, count : Counts,
           sources : SourceCounts, recent : RecentCounts] : f.recent <= f.count }

(* should_scrape_now with the article-count tests before the age test *)
ShouldScrapeNow_countFirst(hour, f) ==
  IF ~(BusinessStart <= hour /\ hour <= BusinessEnd) THEN FALSE
  ELSE IF ~f.exists THEN TRUE
  ELSE IF ~f.corrupt /\ f.count >= MaxArticles THEN FALSE
  ELSE IF f.age > MaxDataAgeHours THEN TRUE
  ELSE IF f.corrupt THEN TRUE
  ELSE IF f.count < MinArticles THEN TRUE
  ELSE IF f.sources < MinSources THEN TRUE
  ELSE IF f.recent < MinRecent /\ f.age > 1 THEN TRUE
  ELSE FALSE

(* should_scrape_now: the first element of the tuple it returns *)
ShouldScrapeNow(hour, f) ==
  IF ~(BusinessStart <= hour /\ hour <= BusinessEnd) THEN FALSE
  ELSE IF ~f.exists THEN TRUE
  ELSE IF f.age > MaxDataAgeHours THEN TRUE
  ELSE IF f.corrupt THEN TRUE
  ELSE IF f.count < MinArticles THEN TRUE
  ELSE IF f.count >= MaxArticles THEN FALSE
  ELSE IF f.sources < MinSources THEN TRUE
  ELSE IF f.recent < MinRecent /\ f.age > 1 THEN TRUE
  ELSE FALSE

(* run_enhanced_monitoring_cycle, step 4: the decision at some hour of the  *)
(* day for some state of today's daily file; the monitor's single cycle is  *)
(* started only when it is true. The function keeps nothing between two     *)
(* calls: one call is observed                                              *)
SmartScrapingDecision ==
  /\ op.n = 0
  /\ \E hour \in Hours, f \in TodayFiles :
       op' = [name |-> "should_scrape_now", n |-> 1, hour |-> hour,
              file |-> f, ret |-> ShouldScrapeNow(hour, f)]
  /\ UNCHANGED <<today, tick, news, backup, live, ledger, pc, idx, all_results,
                 final, mon, launcher, hist, api, net>>

GateNext == SmartScrapingDecision

GateSpec == Init /\ [][GateNext]_vars

Decided == op.name = "should_scrape_now"
InBusinessHours == BusinessStart <= op.hour /\ op.hour <= BusinessEnd
Stale == ~op.file.exists \/ op.file.age > MaxDataAgeHours

(* C39 as stated: the decision is true whenever today's archive is missing  *)
(* or older than the max data age, true when it holds fewer articles than   *)
(* the min threshold, and false when it is within the max data age and      *)
(* holds at least the max threshold                                         *)
C39_ThresholdsGate ==
  Decided =>
    /\ Stale => op.ret
    /\ (op.file.exists /\ ~op.file.corrupt /\ op.file.count < MinArticles) => op.ret
    /\ (op.file.exists /\ ~op.file.corrupt /\ op.file.age <= MaxDataAgeHours
          /\ op.file.count >= MaxArticles) => ~op.ret

(* C39, amended: within the business hours the decision is true whenever    *)
(* today's archive is missing or older than the max data age and when it    *)
(* holds fewer articles than the min threshold; at any hour it is false     *)
(* when the archive is within the max data age and holds at least the max   *)
(* threshold; outside the business hours it is false                        *)
C39_ThresholdsGateInHours ==
  Decided =>
    /\ (InBusinessHours /\ Stale) => op.ret
    /\ (InBusinessHours /\ op.file.exists /\ ~op.file.corrupt
          /\ op.file.count < MinArticles) => op.ret
    /\ (op.file.exists /\ ~op.file.corrupt /\ op.file.age <= MaxDataAgeHours
          /\ op.file.count >= MaxArticles) => ~op.ret
    /\ ~InBusinessHours => ~op.ret

C39_Witness ==
  /\ Decided /\ InBusinessHours
  /\ op.file.exists /\ op.file.age > MaxDataAgeHours
  /\ op.file.count >= MaxArticles
  /\ op.ret

(* ======================== notifications queue ========================== *)
(* notifications_queue[:5] of poll_notifications *)
PollLimit == 5

(* an entry of notifications_queue: the endpoint that made it and the clock *)
(* tick at which it arrived                                                 *)
Notification(kind, t) == [kind |-> kind, at |-> t]

(* notify_new_articles: insert(0, ...) followed by del notifications_queue[50:] *)
NotifyInsert(q, e) ==
  LET q1 == <<e>> \o q
  IN SubSeq(q1, 1, IF Len(q1) < QueueCap THEN Len(q1) ELSE QueueCap)

(* test_alert_system: insert(0, ...) *)
TestInsert(q, e) == <<e>> \o q

(* the response of a notification endpoint, as the next observation *)
NoteRecord(nm, cnt, b) ==
  [seq |-> 1 - api.last.seq, name |-> nm, tier |-> "none", ret |-> cnt, body |-> b]

(* POST /api/notify *)
NotifyNewArticles ==
  /\ api.started
  /\ LET q == NotifyInsert(api.queue, Notification("notify", api.now))
     IN api' = [api EXCEPT !.queue = q,
                           !.last = NoteRecord("notify", Len(q), NoData)]
  /\ UNCHANGED <<pipeline, net>>

(* POST /api/alerts/test: reading or writing alerts_log.json may raise      *)
(* (HTTP 500), and then the queue is not touched                            *)
TestAlertSystem ==
  /\ api.started
  /\ Len(api.queue) < MaxQueueLen
  /\ \E logOk \in BOOLEAN :
       LET q == IF logOk THEN TestInsert(api.queue, Notification("test", api.now))
                ELSE api.queue
       IN api' = [api EXCEPT !.queue = q,
                             !.last = NoteRecord("test_alert", Len(q), NoData)]
  /\ UNCHANGED <<pipeline, net>>

(* GET /api/notifications?clear=... *)
PollNotifications ==
  /\ api.started
  /\ \E clear \in BOOLEAN :
       LET q == api.queue
           few == SubSeq(q, 1, IF Len(q) < PollLimit THEN Len(q) ELSE PollLimit)
       IN api' = [api EXCEPT !.queue = IF clear THEN <<>> ELSE q,
                             !.last = NoteRecord("poll", Len(q), few)]
  /\ UNCHANGED <<pipeline, net>>

NotifyNext ==
  \/ ApiStartup
  \/ ClockTick
  \/ NotifyNewArticles
  \/ TestAlertSystem
  \/ PollNotifications

NotifySpec == Init /\ [][NotifyNext]_vars

NewestFirst(q) == \A i \in 1..Len(q), j \in 1..Len(q) : i < j => q[i].at >= q[j].at

(* C40: after any sequence of /api/notify, /api/alerts/test and             *)
(* /api/notifications calls the notifications queue holds at most the cap   *)
(* of entries (50 in the code), the newest first                            *)
C40_QueueBounded ==
  /\ Len(api.queue) <= QueueCap
  /\ NewestFirst(api.queue)

====
